---- MODULE Spec2Model ----
(***************************************************************************)
(* Model of http_server.py: the background HTTP file-server manager.       *)
(*                                                                         *)
(* Two parts:                                                              *)
(*  - discover_servers() as a pure operator over the text of the kernel    *)
(*    socket tables and the /proc process entries (SpecDisc explores it    *)
(*    over arbitrary table/process contents);                              *)
(*  - the lifecycle controller (server_start, server_stop) and the         *)
(*    daemonized child, running against a small process table whose /proc  *)
(*    rendering is fed to the same discover operator (Spec).               *)
(*                                                                         *)
(* Text is modelled as a sequence of one-character strings, so that        *)
(* splitting, prefix tests and hex/decimal parsing are computed.           *)
(***************************************************************************)
EXTENDS Integers, Sequences, FiniteSets, TLC

VARIABLES
    tables,   \* SpecDisc input: <</proc/net/tcp, /proc/net/tcp6>> as read
    ptable,   \* SpecDisc input: the entries Path('/proc').iterdir() yields
    dpc,      \* SpecDisc: "ready" before the call, "done" after
    dres,     \* SpecDisc: outcome of discover_servers()
    proc,     \* the process table: pid -> process record
    nextPid,  \* next pid the kernel hands to fork()
    fs,       \* the part of the file system start touches
    ctl       \* the controller invocations: arguments, position, observations

vars == <<tables, ptable, dpc, dres, proc, nextPid, fs, ctl>>

discVars == <<tables, ptable, dpc, dres>>
lifeVars == <<proc, nextPid, fs, ctl>>

(***************************************************************************)
(* Text helpers                                                            *)
(***************************************************************************)
RECURSIVE SeqToSet(_)
SeqToSet(s) == IF s = <<>> THEN {} ELSE {Head(s)} \cup SeqToSet(Tail(s))

HexChars == <<"0","1","2","3","4","5","6","7","8","9","A","B","C","D","E","F">>

\* value of one digit character in the given base, -1 when it is no digit
DigitVal(c, base) ==
    IF \E k \in 1..base : HexChars[k] = c
    THEN (CHOOSE k \in 1..base : HexChars[k] = c) - 1
    ELSE -1

RECURSIVE ParseAcc(_, _, _)
ParseAcc(s, base, acc) ==
    IF s = <<>> THEN acc
    ELSE IF DigitVal(Head(s), base) < 0 THEN -1
    ELSE ParseAcc(Tail(s), base, acc * base + DigitVal(Head(s), base))

\* int(s, base): the value, or -1 where Python raises ValueError
ParseInt(s, base) == IF s = <<>> THEN -1 ELSE ParseAcc(s, base, 0)

RECURSIVE SplitAcc(_, _, _)
SplitAcc(s, sep, cur) ==
    IF s = <<>> THEN <<cur>>
    ELSE IF Head(s) = sep THEN <<cur>> \o SplitAcc(Tail(s), sep, <<>>)
    ELSE SplitAcc(Tail(s), sep, Append(cur, Head(s)))

\* str.split(sep)
Split(s, sep) == SplitAcc(s, sep, <<>>)

\* str.startswith(prefix)
StartsWith(s, prefix) ==
    /\ Len(s) >= Len(prefix)
    /\ SubSeq(s, 1, Len(prefix)) = prefix

\* needle in s (substring test)
Contains(s, needle) ==
    \E k \in 1..(Len(s) - Len(needle) + 1) :
        SubSeq(s, k, k + Len(needle) - 1) = needle

\* str.isdigit() on the ASCII names /proc holds
IsDigits(s) == s # <<>> /\ \A k \in 1..Len(s) : DigitVal(s[k], 10) >= 0

ProgName == <<"h","t","t","p","_","s","e","r","v","e","r",".","p","y">>
SocketPrefix == <<"s","o","c","k","e","t",":","[">>
StListen == <<"0","A">>

(***************************************************************************)
(* discover_servers(): the socket table reader                             *)
(***************************************************************************)
EmptyMap == [x \in {} |-> 0]

MapPut(m, k, v) == [x \in (DOMAIN m) \cup {k} |-> IF x = k THEN v ELSE m[x]]

\* one data line of a table: parts = line.split()
ReadRow(m, parts) ==
    IF Len(parts) < 10 THEN m
    ELSE LET local == parts[2]
             st    == parts[4]
             inode == parts[10]
             lp    == Split(local, ":")
         IN  IF st # StListen THEN m
             ELSE IF Len(lp) # 2 THEN m
             ELSE IF ParseInt(lp[2], 16) < 0 \/ ParseInt(inode, 10) < 0 THEN m
             ELSE MapPut(m, ParseInt(inode, 10), ParseInt(lp[2], 16))

RECURSIVE ReadRows(_, _)
ReadRows(m, rows) ==
    IF rows = <<>> THEN m ELSE ReadRows(ReadRow(m, Head(rows)), Tail(rows))

\* open(table) raising FileNotFoundError / PermissionError: the table is passed over
TableSkipped(t) == t.status \in {"missing", "denied"}

\* next(f) on a file without a first line raises StopIteration, which the
\* except clause of the table loop does not name
TableRaises(t) == t.status = "ok" /\ t.lines = <<>>

ReadTable(m, t) ==
    IF TableSkipped(t) THEN m ELSE ReadRows(m, Tail(t.lines))

RECURSIVE ReadTables(_, _)
ReadTables(m, ts) ==
    IF ts = <<>> THEN [raised |-> FALSE, map |-> m]
    ELSE IF TableSkipped(Head(ts)) THEN ReadTables(m, Tail(ts))
    ELSE IF TableRaises(Head(ts)) THEN [raised |-> TRUE, map |-> EmptyMap]
    ELSE ReadTables(ReadTable(m, Head(ts)), Tail(ts))

(***************************************************************************)
(* discover_servers(): the process scanner                                 *)
(***************************************************************************)
\* texts = the non-empty command-line tokens; managed when one holds the name
IsManagedCmd(tokens) ==
    \E k \in 1..Len(tokens) : tokens[k] # <<>> /\ Contains(tokens[k], ProgName)

\* the port one descriptor contributes: {} or a single port
FdPorts(m, fd) ==
    IF ~fd.ok THEN {}
    ELSE IF ~StartsWith(fd.target, SocketPrefix) THEN {}
    ELSE LET ino == ParseInt(SubSeq(fd.target, 9, Len(fd.target) - 1), 10)
         IN  IF ino < 0 THEN {}
             ELSE IF ino \notin DOMAIN m THEN {}
             ELSE IF m[ino] = 0 THEN {}
             ELSE {m[ino]}

RECURSIVE SeenPorts(_, _)
SeenPorts(m, fds) ==
    IF fds = <<>> THEN {} ELSE FdPorts(m, Head(fds)) \cup SeenPorts(m, Tail(fds))

PairLess(a, b) == a[1] < b[1] \/ (a[1] = b[1] /\ a[2] < b[2])

\* the elements of a set of pairs, as a sequence (a Python set has no order
\* of its own; the final sort fixes it)
RECURSIVE SetToSeq(_)
SetToSeq(S) ==
    IF S = {} THEN <<>>
    ELSE LET lo == CHOOSE x \in S : \A y \in S \ {x} : PairLess(x, y)
         IN  <<lo>> \o SetToSeq(S \ {lo})

\* the (pid, port) pairs one /proc entry appends to results: one per port in seen
ScanEntry(m, e) ==
    IF ~IsDigits(e.name) THEN <<>>
    ELSE IF ~e.cmd.ok THEN <<>>
    ELSE IF ~IsManagedCmd(e.cmd.tokens) THEN <<>>
    ELSE IF ~e.fddir.ok THEN <<>>
    ELSE SetToSeq({<<ParseInt(e.name, 10), p>> : p \in SeenPorts(m, e.fddir.fds)})

RECURSIVE ScanAll(_, _)
ScanAll(m, es) ==
    IF es = <<>> THEN <<>> ELSE ScanEntry(m, Head(es)) \o ScanAll(m, Tail(es))

RECURSIVE InsertPair(_, _)
InsertPair(x, s) ==
    IF s = <<>> THEN <<x>>
    ELSE IF PairLess(Head(s), x) THEN <<Head(s)>> \o InsertPair(x, Tail(s))
    ELSE <<x>> \o s

\* sorted(results)
RECURSIVE SortPairs(_)
SortPairs(s) ==
    IF s = <<>> THEN <<>> ELSE InsertPair(Head(s), SortPairs(Tail(s)))

\* discover_servers(): raised (an exception left the function) or the list
Discover(ts, es) ==
    LET r == ReadTables(EmptyMap, ts)
    IN  IF r.raised THEN [raised |-> TRUE, list |-> <<>>]
        ELSE IF DOMAIN r.map = {} THEN [raised |-> FALSE, list |-> <<>>]
        ELSE [raised |-> FALSE, list |-> SortPairs(ScanAll(r.map, es))]

(***************************************************************************)
(* The text the kernel renders: /proc/net/tcp rows and /proc/<pid>/fd links *)
(***************************************************************************)
RECURSIVE HexStr(_, _)
HexStr(n, w) ==
    IF w = 0 THEN <<>> ELSE HexStr(n \div 16, w - 1) \o <<HexChars[(n % 16) + 1]>>

RECURSIVE DecStr(_)
DecStr(n) ==
    IF n < 10 THEN <<HexChars[n + 1]>>
    ELSE DecStr(n \div 10) \o <<HexChars[(n % 10) + 1]>>

Zero == <<"0">>
AnyAddr == <<"0","0","0","0","0","0","0","0">>

\* local_address column: hex address, colon, four hex digits of port
LocalField(port) == AnyAddr \o <<":">> \o HexStr(port, 4)

\* a data row, already split on white space: sl local rem st queues tr retr uid timeout inode ref ptr
MkRow(local, st, inode) ==
    <<Zero, local, LocalField(0), st, Zero, Zero, Zero, Zero, Zero, inode, Zero, Zero>>

HeaderRow == << <<"s","l">>, <<"l","o","c","a","l">> >>

\* the link target of a socket descriptor
SocketLink(inode) == SocketPrefix \o DecStr(inode) \o <<"]">>

PythonTok == <<"p","y","t","h","o","n","3">>
ScriptTok == <<".","/">> \o ProgName
StartTok == <<"s","t","a","r","t">>
VimTok == <<"v","i","m">>
ManagedCmd == <<PythonTok, ScriptTok, StartTok, <<>> >>
OtherCmd == <<VimTok, <<>> >>

DEFAULT_PORT == 8000
AltPort == 9000
PortA == DEFAULT_PORT
PortB == AltPort

(***************************************************************************)
(* SpecDisc: discover_servers() over bounded table and process contents     *)
(***************************************************************************)
MaxRows == 2
MaxRows6 == 1
MaxFds == 2

\* inode numbers and pids the bounded contents are built from
Ino(k) == 111 * k
InoA == Ino(1)
InoB == Ino(2)
InoC == Ino(3)
StEstab == <<"0","1">>

SeqsUpTo(S, n) == UNION {[1..k -> S] : k \in 0..n}

DiscRows ==
    { MkRow(LocalField(PortA), StListen, DecStr(InoA)),   \* listening, inode 111 -> 8000
      MkRow(LocalField(PortA), StEstab, DecStr(InoB)),    \* not listening, inode 222
      MkRow(LocalField(PortB), StListen, DecStr(InoB)),   \* listening, inode 222 -> 9000
      <<Zero, LocalField(PortA), Zero>>,                  \* short row
      MkRow(AnyAddr \o <<":","Z","Z">>, StListen, DecStr(InoA)),  \* unparsable port
      MkRow(LocalField(PortB), StListen, <<"x">>) }       \* unparsable inode

DiscRows6 ==
    { MkRow(LocalField(PortA), StListen, DecStr(InoC)),   \* listening, inode 333 -> 8000
      MkRow(AnyAddr, StListen, DecStr(InoC)) }            \* local address without a colon

TablesOver(rows, n) ==
    { [status |-> "missing", lines |-> <<>>],
      [status |-> "denied", lines |-> <<>>],
      [status |-> "ok", lines |-> <<>>] }
    \cup { [status |-> "ok", lines |-> <<HeaderRow>> \o r] : r \in SeqsUpTo(rows, n) }

DiscFds ==
    { [ok |-> TRUE, target |-> SocketLink(InoA)],
      [ok |-> TRUE, target |-> SocketLink(InoB)],
      [ok |-> TRUE, target |-> SocketLink(InoC)],
      [ok |-> TRUE, target |-> <<"/","d","e","v">>],
      [ok |-> TRUE, target |-> SocketPrefix \o <<"x","]">>],
      [ok |-> FALSE, target |-> <<>>] }

FdDirs == {[ok |-> FALSE, fds |-> <<>>]}
          \cup {[ok |-> TRUE, fds |-> f] : f \in SeqsUpTo(DiscFds, MaxFds)}

\* the entries for pid 7: every descriptor directory when managed, one otherwise
EntriesA ==
    {[name |-> DecStr(7), cmd |-> [ok |-> TRUE, tokens |-> ManagedCmd], fddir |-> d] : d \in FdDirs}
    \cup {[name |-> DecStr(7), cmd |-> c,
           fddir |-> [ok |-> TRUE, fds |-> <<[ok |-> TRUE, target |-> SocketLink(InoA)]>>]] :
            c \in {[ok |-> FALSE, tokens |-> <<>>], [ok |-> TRUE, tokens |-> OtherCmd]}}

\* the entries for pid 3: a managed process sharing descriptors with pid 7
EntriesB ==
    {[name |-> DecStr(3), cmd |-> [ok |-> TRUE, tokens |-> ManagedCmd],
      fddir |-> [ok |-> TRUE, fds |-> f]] :
        f \in { <<[ok |-> TRUE, target |-> SocketLink(InoA)]>>,
                <<[ok |-> TRUE, target |-> SocketLink(InoB)],
                  [ok |-> TRUE, target |-> SocketLink(InoA)]>> }}

\* a /proc entry that is no process
EntrySelf == [name |-> <<"s","e","l","f">>, cmd |-> [ok |-> TRUE, tokens |-> ManagedCmd],
              fddir |-> [ok |-> TRUE, fds |-> <<[ok |-> TRUE, target |-> SocketLink(InoA)]>>]]

PTables ==
    {<<>>} \cup {<<a>> : a \in EntriesA} \cup {<<EntrySelf, a>> : a \in EntriesA}
    \cup {<<a, b>> : a \in EntriesA, b \in EntriesB}
    \cup {<<b, a>> : a \in EntriesA, b \in EntriesB}


(***************************************************************************)
(* The process table and file system the controller runs against           *)
(***************************************************************************)
\* pids 1 and 2 are processes that exist apart from the running commands;
\* forked children take the pids from 3 on
ExtPids == {1, 2}
Pids == {1, 2, 3, 4}
FirstChildPid == Cardinality(ExtPids) + 1
NoPid == 0

\* the command lines running side by side
Inv == {1, 2}

Ports == {DEFAULT_PORT, AltPort}
NoPort == 0
Socks == {"tcp", "tcp6"} \X Ports

StartPolls == 30
StopPolls == 30

\* command lines typed one after the other
MaxRuns == 2

\* log file arguments: the legacy root-level path ./.images_http.log, and a
\* path in another directory
LogPaths == {"old", "new"}

NoProc == [alive |-> FALSE, managed |-> FALSE, socks |-> {}, pend |-> "none",
           cpc |-> "none", port |-> NoPort, logf |-> "old",
           sid |-> FALSE, cwd |-> FALSE, redir |-> FALSE,
           logged |-> FALSE, tty |-> FALSE, xcode |-> -1]

ExtProc(m, ss) == [NoProc EXCEPT !.alive = TRUE, !.managed = m, !.socks = ss, !.cpc = "ext"]

\* the inode of the listening socket a process holds on (family, port)
SockInode(pid, sk) ==
    100 * pid + (IF sk[1] = "tcp" THEN 10 ELSE 20) + (IF sk[2] = DEFAULT_PORT THEN 1 ELSE 2)

SockList(ss) == SetToSeq({<<(IF sk[1] = "tcp" THEN 1 ELSE 2), sk[2]>> : sk \in ss})
FamilyOf(k) == IF k = 1 THEN "tcp" ELSE "tcp6"

RECURSIVE RowsOf(_, _, _)
RowsOf(pid, fam, sl) ==
    IF sl = <<>> THEN <<>>
    ELSE (IF FamilyOf(Head(sl)[1]) = fam
          THEN <<MkRow(LocalField(Head(sl)[2]), StListen,
                       DecStr(SockInode(pid, <<fam, Head(sl)[2]>>)))>>
          ELSE <<>>) \o RowsOf(pid, fam, Tail(sl))

RECURSIVE KernelRows(_, _, _)
KernelRows(pt, fam, pids) ==
    IF pids = <<>> THEN <<>>
    ELSE (IF pt[Head(pids)].alive
          THEN RowsOf(Head(pids), fam, SockList(pt[Head(pids)].socks)) ELSE <<>>)
         \o KernelRows(pt, fam, Tail(pids))

PidList == <<1, 2, 3, 4>>

\* /proc/net/tcp and /proc/net/tcp6 as the kernel renders them: a header line,
\* then one row per listening socket
KernelTables(pt) ==
    << [status |-> "ok", lines |-> <<HeaderRow>> \o KernelRows(pt, "tcp", PidList)],
       [status |-> "ok", lines |-> <<HeaderRow>> \o KernelRows(pt, "tcp6", PidList)] >>

RECURSIVE FdLinks(_, _)
FdLinks(pid, sl) ==
    IF sl = <<>> THEN <<>>
    ELSE <<[ok |-> TRUE,
            target |-> SocketLink(SockInode(pid, <<FamilyOf(Head(sl)[1]), Head(sl)[2]>>))]>>
         \o FdLinks(pid, Tail(sl))

\* the /proc/<pid> entries of the live processes, all readable
RECURSIVE ProcEntries(_, _)
ProcEntries(pt, pids) ==
    IF pids = <<>> THEN <<>>
    ELSE (IF pt[Head(pids)].alive
          THEN <<[name |-> DecStr(Head(pids)),
                  cmd |-> [ok |-> TRUE,
                           tokens |-> IF pt[Head(pids)].managed THEN ManagedCmd
                                      ELSE OtherCmd],
                  fddir |-> [ok |-> TRUE,
                             fds |-> <<[ok |-> TRUE, target |-> <<"/","d","e","v">>]>>
                                     \o FdLinks(Head(pids), SockList(pt[Head(pids)].socks))]]>>
          ELSE <<>>) \o ProcEntries(pt, Tail(pids))

\* discover_servers() run against the current process table
DiscoverNow == Discover(KernelTables(proc), ProcEntries(proc, PidList)).list

\* [x for x in servers if port is None or x.port == port]
RECURSIVE FilterPort(_, _)
FilterPort(l, port) ==
    IF l = <<>> THEN <<>>
    ELSE (IF port = NoPort \/ Head(l)[2] = port THEN <<Head(l)>> ELSE <<>>)
         \o FilterPort(Tail(l), port)

\* the keys of grouped
PidsOf(l) == {l[k][1] : k \in 1..Len(l)}

\* the ports grouped under a pid, in the order of the sorted list
RECURSIVE PortsOf(_, _)
PortsOf(l, pid) ==
    IF l = <<>> THEN <<>>
    ELSE (IF Head(l)[1] = pid THEN <<Head(l)[2]>> ELSE <<>>) \o PortsOf(Tail(l), pid)

(***************************************************************************)
(* The controller invocation                                               *)
(***************************************************************************)
IdleCtl == [cmd |-> "none", argPort |-> NoPort, port |-> NoPort, logf |-> "new",
            pc |-> "idle", n |-> 0, target |-> NoPid, child |-> NoPid,
            seen |-> <<>>, out |-> <<>>, rpid |-> NoPid, sigs |-> <<>>,
            probes |-> 0, gone |-> FALSE, connects |-> 0, fsops |-> {}, exit |-> -1,
            phase |-> "none", hprobes |-> 0, hport |-> NoPort, runs |-> 0,
            tports |-> <<>>]

Report(c, tag) == [c EXCEPT !.out = Append(@, tag)]

\* a return that always ends the command
ReturnToMain(c) == [c EXCEPT !.pc = "done", !.exit = 0]

\* the function returns to its caller: to server_restart after its first call
\* (line 336), which goes on to server_start; else to main(), which returns
\* with exit status 0.  The loop counter of server_stop ends with the call,
\* and the probe count is kept per call.
Return(c) ==
    IF c.cmd = "restart" /\ c.phase = "stop"
    THEN [c EXCEPT !.phase = "start", !.pc = "s_migrate", !.n = 0, !.probes = 0]
    ELSE [c EXCEPT !.pc = "done", !.exit = 0]

\* sys.exit(code)
Exit(c, code) == [c EXCEPT !.pc = "done", !.exit = code]

Running(i) == ctl[i].pc \notin {"idle", "done"}

ParentExists(f, lf) == IF lf = "old" THEN TRUE ELSE f.logDir

\* log_file.parent.mkdir(parents=True, exist_ok=True)
MakeParent(f, lf) == IF lf = "old" THEN f ELSE [f EXCEPT !.logDir = TRUE]

\* main(): one command line, with its arguments
Invoke(i, cmd, port, lf) ==
    /\ ctl[i].pc = "idle"
    /\ ctl' = [ctl EXCEPT ![i] =
                 [IdleCtl EXCEPT !.cmd = cmd, !.argPort = port, !.port = port, !.logf = lf,
                                 !.phase = IF cmd = "restart" THEN "stop" ELSE cmd,
                                 !.pc = IF cmd = "start" THEN "s_migrate"
                                        ELSE IF cmd = "status" THEN "t_discover"
                                        ELSE "k_discover"]]
    /\ UNCHANGED <<proc, nextPid, fs>>
    /\ UNCHANGED discVars

\* main() again: the next command line typed after the one before has ended
InvokeAfter(i, cmd, port, lf) ==
    /\ ctl[i].pc = "done"
    /\ ctl[i].runs + 1 < MaxRuns
    /\ ctl' = [ctl EXCEPT ![i] =
                 [IdleCtl EXCEPT !.cmd = cmd, !.argPort = port, !.port = port, !.logf = lf,
                                 !.runs = ctl[i].runs + 1,
                                 !.phase = IF cmd = "restart" THEN "stop" ELSE cmd,
                                 !.pc = IF cmd = "start" THEN "s_migrate"
                                        ELSE IF cmd = "status" THEN "t_discover"
                                        ELSE "k_discover"]]
    /\ UNCHANGED <<proc, nextPid, fs>>
    /\ UNCHANGED discVars

(***************************************************************************)
(* server_start: the parent side                                           *)
(***************************************************************************)
\* lines 176-190: default the port, then the legacy log migration.  mkdir and
\* replace run inside try/except Exception: either may fail and is passed over.
StartMigrate(i) ==
    /\ ctl[i].pc = "s_migrate"
    /\ LET c1 == [ctl[i] EXCEPT !.port = IF @ = NoPort THEN DEFAULT_PORT ELSE @,
                                !.pc = "s_dir"]
           lf == ctl[i].logf
       IN  IF lf \notin fs.files /\ "old" \in fs.files /\ "old" # lf
           THEN \E mk \in BOOLEAN, mv \in BOOLEAN :
                  /\ mv => mk
                  /\ LET f1 == IF mk THEN MakeParent(fs, lf) ELSE fs
                         f2 == IF mv THEN [f1 EXCEPT !.files = (@ \ {"old"}) \cup {lf}]
                               ELSE f1
                         ops == (IF f1 # fs THEN {"mkdir"} ELSE {})
                                \cup (IF mv THEN {"rename"} ELSE {})
                     IN  /\ fs' = f2
                         /\ ctl' = [ctl EXCEPT ![i] = [c1 EXCEPT !.fsops = @ \cup ops]]
           ELSE /\ fs' = fs
                /\ ctl' = [ctl EXCEPT ![i] = c1]
    /\ UNCHANGED <<proc, nextPid>>
    /\ UNCHANGED discVars

\* lines 192-194
StartCheckDir(i) ==
    /\ ctl[i].pc = "s_dir"
    /\ ctl' = [ctl EXCEPT ![i] =
                 IF ~fs.serveDir THEN Exit(Report(@, "DirNotFound"), 1)
                 ELSE [@ EXCEPT !.pc = "s_discover"]]
    /\ UNCHANGED <<proc, nextPid, fs>>
    /\ UNCHANGED discVars

\* lines 196-201
StartDiscover(i) ==
    /\ ctl[i].pc = "s_discover"
    /\ LET all == DiscoverNow
           existing == FilterPort(all, ctl[i].port)
           c1 == [ctl[i] EXCEPT !.seen = all]
       IN  ctl' = [ctl EXCEPT ![i] =
                     IF existing # <<>>
                        /\ (ctl[i].port = NoPort
                            \/ \E k \in 1..Len(existing) : existing[k][2] = ctl[i].port)
                     THEN Return([Report(c1, "AlreadyRunning") EXCEPT !.rpid = existing[1][1]])
                     ELSE [c1 EXCEPT !.pc = "s_probe"]]
    /\ UNCHANGED <<proc, nextPid, fs>>
    /\ UNCHANGED discVars

\* connect_ex((bind, port)) == 0: some IPv4 listener answers on the port
InUse(pt, port) == \E p \in Pids : pt[p].alive /\ <<"tcp", port>> \in pt[p].socks

\* what start does when the probe finds the port answering: lines 209-212
ProbeHit(c) == Return(Report(c, "PortInUse"))

\* lines 205-212
StartProbe(i) ==
    /\ ctl[i].pc = "s_probe"
    /\ LET c1 == [ctl[i] EXCEPT !.connects = @ + 1]
       IN  ctl' = [ctl EXCEPT ![i] =
                     IF InUse(proc, ctl[i].port) THEN ProbeHit(c1)
                     ELSE [c1 EXCEPT !.pc = "s_fork"]]
    /\ UNCHANGED <<proc, nextPid, fs>>
    /\ UNCHANGED discVars

\* lines 214-217: the wildcard warning, the announcement, os.fork()
StartFork(i) ==
    /\ ctl[i].pc = "s_fork"
    /\ nextPid \in Pids
    /\ proc' = [proc EXCEPT ![nextPid] =
                   [NoProc EXCEPT !.alive = TRUE, !.managed = TRUE, !.cpc = "setsid",
                                  !.port = ctl[i].port, !.logf = ctl[i].logf]]
    /\ nextPid' = nextPid + 1
    /\ ctl' = [ctl EXCEPT ![i] =
                 [Report(Report(@, "Warning"), "Starting") EXCEPT
                    !.child = nextPid, !.pc = "s_poll", !.n = 0]]
    /\ UNCHANGED fs
    /\ UNCHANGED discVars

\* the comprehension of line 221 without its port condition
RECURSIVE MatchPidsAnyPort(_, _)
MatchPidsAnyPort(l, port) ==
    IF l = <<>> THEN <<>> ELSE <<Head(l)[1]>> \o MatchPidsAnyPort(Tail(l), port)

\* [spid for spid, port in servers if port == args.port]
RECURSIVE MatchPids(_, _)
MatchPids(l, port) ==
    IF l = <<>> THEN <<>>
    ELSE (IF Head(l)[2] = port THEN <<Head(l)[1]>> ELSE <<>>) \o MatchPids(Tail(l), port)

\* lines 219-224: one iteration of the confirmation poll
StartPoll(i) ==
    /\ ctl[i].pc = "s_poll"
    /\ ctl[i].n < StartPolls
    /\ LET match == MatchPids(DiscoverNow, ctl[i].port)
       IN  ctl' = [ctl EXCEPT ![i] =
                     IF match # <<>>
                     THEN Return([Report(@, "Started") EXCEPT !.rpid = match[1]])
                     ELSE [@ EXCEPT !.n = @ + 1]]
    /\ UNCHANGED <<proc, nextPid, fs>>
    /\ UNCHANGED discVars

\* lines 225-227: the loop ran out
StartPollExhausted(i) ==
    /\ ctl[i].pc = "s_poll"
    /\ ctl[i].n = StartPolls
    /\ ctl' = [ctl EXCEPT ![i] =
                 Return([Report(@, "NotConfirmed") EXCEPT !.rpid = ctl[i].child])]
    /\ UNCHANGED <<proc, nextPid, fs>>
    /\ UNCHANGED discVars

(***************************************************************************)
(* server_start: the forked child                                          *)
(***************************************************************************)
ChildAt(p, where) == proc[p].alive /\ proc[p].cpc = where

\* the child with the log opened before the chdir
ChildOrderRedirectFirst ==
    <<"setsid", "openlog", "chdir", "mkdir", "bind", "serve", "forever">>

\* the statements of the child in program order: lines 230, 233, 235-240,
\* 243, 248-252, 254-255; "forever" is the inside of serve_forever()
ChildOrder == <<"setsid", "chdir", "openlog", "mkdir", "bind", "serve", "forever">>

\* the position after the given one
After(where) ==
    ChildOrder[(CHOOSE k \in 1..Len(ChildOrder) : ChildOrder[k] = where) + 1]

\* line 230, os.setsid(): the child becomes a session leader
ChildSetsid(p) ==
    /\ ChildAt(p, "setsid")
    /\ proc' = [proc EXCEPT ![p].sid = TRUE, ![p].cpc = After("setsid")]
    /\ UNCHANGED <<nextPid, fs, ctl>>
    /\ UNCHANGED discVars

\* line 233, os.chdir(serve_dir)
ChildChdir(p) ==
    /\ ChildAt(p, "chdir")
    /\ proc' = [proc EXCEPT ![p].cwd = TRUE, ![p].cpc = After("chdir")]
    /\ UNCHANGED <<nextPid, fs, ctl>>
    /\ UNCHANGED discVars

\* lines 235-240: open the log for append and dup2 it over stdout and stderr.
\* With the log's directory missing open() raises; nothing catches it, the
\* traceback goes to the still inherited stderr and the child ends with status 1.
ChildOpenLog(p) ==
    /\ ChildAt(p, "openlog")
    /\ IF ParentExists(fs, proc[p].logf)
       THEN /\ fs' = [fs EXCEPT !.files = @ \cup {proc[p].logf}]
            /\ proc' = [proc EXCEPT ![p].redir = TRUE, ![p].cpc = After("openlog")]
       ELSE /\ fs' = fs
            /\ proc' = [proc EXCEPT ![p].alive = FALSE, ![p].tty = TRUE,
                                    ![p].xcode = 1, ![p].cpc = "exit"]
    /\ UNCHANGED <<nextPid, ctl>>
    /\ UNCHANGED discVars

\* line 243: the log's directory is made sure of, after the log was opened
ChildMkdir(p) ==
    /\ ChildAt(p, "mkdir")
    /\ fs' = MakeParent(fs, proc[p].logf)
    /\ proc' = [proc EXCEPT ![p].cpc = After("mkdir")]
    /\ UNCHANGED <<nextPid, ctl>>
    /\ UNCHANGED discVars

\* a bind that succeeds whoever holds the address
BindNeverFails(pt, p) == FALSE

\* the address is taken: another live process listens on the IPv4 port
BindFails(pt, p) ==
    \E q \in Pids \ {p} : pt[q].alive /\ <<"tcp", pt[p].port>> \in pt[q].socks

\* a bind that shares the address with the listener already there
ChildBindShared(pt, p) ==
    [pt EXCEPT ![p].socks = {<<"tcp", pt[p].port>>}, ![p].cpc = After("bind")]

\* lines 250-252: the bind error is written to stdout, then sys.exit(1)
ChildBindError(pt, p) ==
    [pt EXCEPT ![p].logged = pt[p].redir, ![p].tty = ~pt[p].redir,
               ![p].alive = FALSE, ![p].xcode = 1, ![p].cpc = "exit"]

\* lines 248-252: ThreadingHTTPServer(...) binds and listens, or raises OSError
ChildBind(p) ==
    /\ ChildAt(p, "bind")
    /\ proc' = IF BindFails(proc, p) THEN ChildBindError(proc, p)
               ELSE [proc EXCEPT ![p].socks = {<<"tcp", proc[p].port>>},
                                 ![p].cpc = After("bind")]
    /\ UNCHANGED <<nextPid, fs, ctl>>
    /\ UNCHANGED discVars

\* lines 254-255: httpd.serve_forever()
ChildServe(p) ==
    /\ ChildAt(p, "serve")
    /\ proc' = [proc EXCEPT ![p].cpc = After("serve")]
    /\ UNCHANGED <<nextPid, fs, ctl>>
    /\ UNCHANGED discVars

(***************************************************************************)
(* server_stop                                                             *)
(***************************************************************************)
\* the rule of line 274 with the condition server_status uses at line 317
StopAmbiguousNoPortOnly(servers, port) ==
    Cardinality(PidsOf(servers)) > 1 /\ port = NoPort

\* a rule that counts the (pid, port) pairs instead of the pids
StopAmbiguousByPairs(servers, port) == Len(servers) > 1

\* len(grouped) > 1, line 274
StopAmbiguous(servers, port) == Cardinality(PidsOf(servers)) > 1

\* lines 263-282
StopDiscover(i) ==
    /\ ctl[i].pc = "k_discover"
    /\ LET all == DiscoverNow
           servers == IF ctl[i].port # NoPort THEN FilterPort(all, ctl[i].port) ELSE all
           c1 == [ctl[i] EXCEPT !.seen = all]
       IN  ctl' = [ctl EXCEPT ![i] =
                     IF all = <<>> THEN Return(Report(c1, "NoRunning"))
                     ELSE IF servers = <<>> THEN Return(Report(c1, "NoServerOnPort"))
                     ELSE IF StopAmbiguous(servers, ctl[i].port)
                          THEN Return(Report(c1, "Ambiguous"))
                     ELSE [Report(c1, "Stopping") EXCEPT
                              !.target = servers[1][1],
                              !.tports = PortsOf(servers, servers[1][1]),
                              !.pc = "k_term"]]
    /\ UNCHANGED <<proc, nextPid, fs>>
    /\ UNCHANGED discVars

\* os.kill(pid, sig) with a terminating signal: delivered when the pid exists
Signal(pt, p, sig) ==
    IF pt[p].alive /\ pt[p].pend # "kill" THEN [pt EXCEPT ![p].pend = sig] ELSE pt

\* lines 283-284
StopTerm(i) ==
    /\ ctl[i].pc = "k_term"
    /\ proc' = Signal(proc, ctl[i].target, "term")
    /\ ctl' = [ctl EXCEPT ![i].sigs = Append(@, <<"TERM", ctl[i].target>>),
                          ![i].pc = "k_poll", ![i].n = 0]
    /\ UNCHANGED <<nextPid, fs>>
    /\ UNCHANGED discVars

\* os.kill(pid, 0) raises OSError: the pid is not in the process table
ProbeGone(pt, p) == ~pt[p].alive

\* lines 285-290: one iteration of the liveness poll
StopPoll(i) ==
    /\ ctl[i].pc = "k_poll"
    /\ ctl[i].n < StopPolls
    /\ LET c1 == [ctl[i] EXCEPT !.probes = @ + 1]
       IN  ctl' = [ctl EXCEPT ![i] =
                     IF ProbeGone(proc, ctl[i].target)
                     THEN Return(Report([c1 EXCEPT !.gone = TRUE], "Stopped"))
                     ELSE [c1 EXCEPT !.n = @ + 1]]
    /\ UNCHANGED <<proc, nextPid, fs>>
    /\ UNCHANGED discVars

\* the re-check whose result is not acted on: the kill follows regardless
AfterPollsAlwaysKill(c, goneNow) ==
    [Report([c EXCEPT !.gone = goneNow], "ForceKilling") EXCEPT !.pc = "k_kill"]

\* the re-check that returns without the report of line 299
AfterPollsSilent(c, goneNow) ==
    IF goneNow THEN Return([c EXCEPT !.gone = TRUE])
    ELSE [Report(c, "ForceKilling") EXCEPT !.pc = "k_kill"]

\* a re-check that polls anew for as long as the pid is there
AfterPollsRetry(c, goneNow) ==
    IF goneNow THEN Return(Report([c EXCEPT !.gone = TRUE], "Stopped"))
    ELSE [c EXCEPT !.n = 0, !.probes = 0]

\* lines 295-301: what the re-check after the loop decides
AfterPolls(c, goneNow) ==
    IF goneNow THEN Return(Report([c EXCEPT !.gone = TRUE], "Stopped"))
    ELSE [Report(c, "ForceKilling") EXCEPT !.pc = "k_kill"]

\* lines 291-301: the loop ran out; probe once more
StopRecheck(i) ==
    /\ ctl[i].pc = "k_poll"
    /\ ctl[i].n = StopPolls
    /\ ctl' = [ctl EXCEPT ![i] =
                 AfterPolls([@ EXCEPT !.probes = @ + 1], ProbeGone(proc, ctl[i].target))]
    /\ UNCHANGED <<proc, nextPid, fs>>
    /\ UNCHANGED discVars

\* lines 302-304
StopKill(i) ==
    /\ ctl[i].pc = "k_kill"
    /\ proc' = Signal(proc, ctl[i].target, "kill")
    /\ ctl' = [ctl EXCEPT ![i] =
                 Return(Report([@ EXCEPT !.sigs = Append(@, <<"KILL", ctl[i].target>>)],
                               "Stopped"))]
    /\ UNCHANGED <<nextPid, fs>>
    /\ UNCHANGED discVars

(***************************************************************************)
(* server_status                                                           *)
(***************************************************************************)
\* len(grouped) > 1 and args.port is None, line 317
StatusAmbiguous(servers, port) == Cardinality(PidsOf(servers)) > 1 /\ port = NoPort

\* a probe of every instance that has a port at all
HealthProbedAnyPorts(ports) == Len(ports) >= 1

\* len(ports) == 1, line 325
HealthProbed(ports) == Len(ports) = 1

\* lines 307-325.  grouped keeps insertion order, so its first key is the pid
\* of the first pair of the sorted list
StatusDiscover(i) ==
    /\ ctl[i].pc = "t_discover"
    /\ LET all == DiscoverNow
           servers == IF ctl[i].port # NoPort THEN FilterPort(all, ctl[i].port) ELSE all
           c1 == [ctl[i] EXCEPT !.seen = all]
       IN  ctl' = [ctl EXCEPT ![i] =
                     IF all = <<>> THEN Return(Report(c1, "NotRunning"))
                     ELSE IF servers = <<>> THEN Return(Report(c1, "NotRunningOnPort"))
                     ELSE IF StatusAmbiguous(servers, ctl[i].port)
                          THEN Return(Report(c1, "Multiple"))
                     ELSE LET pid == servers[1][1]
                              ports == PortsOf(servers, pid)
                              c2 == [Report(c1, "Running") EXCEPT !.rpid = pid]
                          IN  IF HealthProbed(ports)
                              THEN [c2 EXCEPT !.hport = ports[1], !.pc = "t_health"]
                              ELSE Return(c2)]
    /\ UNCHANGED <<proc, nextPid, fs>>
    /\ UNCHANGED discVars

\* urlopen() can get an answer only from a live listener on the port
Answers(pt, port) ==
    \E p \in Pids, fam \in {"tcp", "tcp6"} : pt[p].alive /\ <<fam, port>> \in pt[p].socks

\* lines 326-333: one GET with the timeout; it answers, or it raises
StatusHealth(i) ==
    /\ ctl[i].pc = "t_health"
    /\ \E ok \in BOOLEAN :
          /\ ok => Answers(proc, ctl[i].hport)
          /\ ctl' = [ctl EXCEPT ![i] =
                        Return(Report([@ EXCEPT !.hprobes = @ + 1],
                                      IF ok THEN "HealthOK" ELSE "HealthFailed"))]
    /\ UNCHANGED <<proc, nextPid, fs>>
    /\ UNCHANGED discVars

(***************************************************************************)
(* The environment, while a command runs                                   *)
(***************************************************************************)
\* a serving process leaves the process table: it acts on a signal sent to it,
\* or the process a stop has picked ends for a reason of its own
ProcDie(p) ==
    /\ proc[p].alive
    /\ proc[p].cpc \in {"ext", "serve", "forever"}
    /\ \/ proc[p].pend # "none"
       \/ \E i \in Inv : Running(i) /\ ctl[i].target = p
    /\ proc' = [proc EXCEPT ![p].alive = FALSE]
    /\ UNCHANGED <<nextPid, fs, ctl>>
    /\ UNCHANGED discVars

\* a process that was there when the status command began ends meanwhile
Leave(p) ==
    /\ proc[p].alive
    /\ proc[p].cpc = "ext"
    /\ \E i \in Inv : ctl[i].cmd = "status" /\ Running(i)
    /\ proc' = [proc EXCEPT ![p].alive = FALSE]
    /\ UNCHANGED <<nextPid, fs, ctl>>
    /\ UNCHANGED discVars

\* a program that is no part of this tool starts listening on the IPv4 port a
\* running command is about
ExtListen(port) ==
    /\ \E i \in Inv : Running(i) /\ ctl[i].port = port
    /\ proc[2] = NoProc
    /\ ~InUse(proc, port)
    /\ proc' = [proc EXCEPT ![2] = ExtProc(FALSE, {<<"tcp", port>>})]
    /\ UNCHANGED <<nextPid, fs, ctl>>
    /\ UNCHANGED discVars

(***************************************************************************)
(* Specifications                                                          *)
(***************************************************************************)
\* pid 1: nothing, or an instance of this tool started earlier
Ext1 == {NoProc} \cup {ExtProc(TRUE, ss) :
            ss \in {{<<"tcp", DEFAULT_PORT>>}, {<<"tcp", AltPort>>},
                    {<<"tcp", DEFAULT_PORT>>, <<"tcp", AltPort>>}}}

\* pid 2: nothing, a second instance, or an unrelated listener
Ext2 == {NoProc}
        \cup {ExtProc(TRUE, ss) : ss \in {{<<"tcp6", DEFAULT_PORT>>}, {<<"tcp", AltPort>>}}}
        \cup {ExtProc(FALSE, {<<"tcp", DEFAULT_PORT>>})}

NoConflict(a, b) == ~(a.alive /\ b.alive /\ a.socks \cap b.socks # {})

FsStates ==
    {f \in [serveDir : BOOLEAN, logDir : BOOLEAN, files : SUBSET LogPaths] :
        "new" \in f.files => f.logDir}

NoResult == [raised |-> FALSE, list |-> <<>>]

DiscIdle ==
    /\ tables = <<>>
    /\ ptable = <<>>
    /\ dpc = "off"
    /\ dres = NoResult

LifeIdle ==
    /\ proc = [p \in Pids |-> NoProc]
    /\ nextPid = FirstChildPid
    /\ fs = [serveDir |-> TRUE, logDir |-> TRUE, files |-> {}]
    /\ ctl = [i \in Inv |-> IdleCtl]

Init ==
    /\ DiscIdle
    /\ \E a \in Ext1, b \in Ext2 :
          /\ NoConflict(a, b)
          /\ proc = [p \in Pids |-> IF p = 1 THEN a ELSE IF p = 2 THEN b ELSE NoProc]
    /\ nextPid = FirstChildPid
    /\ fs \in FsStates
    /\ ctl = [i \in Inv |-> IdleCtl]

\* one command line is run: start with any port and log file argument, or stop
Next ==
    \/ \E port \in Ports \cup {NoPort}, lf \in LogPaths : Invoke(1, "start", port, lf)
    \/ \E port \in Ports \cup {NoPort} : Invoke(1, "stop", port, "new")
    \/ \E i \in Inv : StartMigrate(i)
    \/ \E i \in Inv : StartCheckDir(i)
    \/ \E i \in Inv : StartDiscover(i)
    \/ \E i \in Inv : StartProbe(i)
    \/ \E i \in Inv : StartFork(i)
    \/ \E i \in Inv : StartPoll(i)
    \/ \E i \in Inv : StartPollExhausted(i)
    \/ \E p \in Pids : ChildSetsid(p)
    \/ \E p \in Pids : ChildChdir(p)
    \/ \E p \in Pids : ChildOpenLog(p)
    \/ \E p \in Pids : ChildMkdir(p)
    \/ \E p \in Pids : ChildBind(p)
    \/ \E p \in Pids : ChildServe(p)
    \/ \E i \in Inv : StopDiscover(i)
    \/ \E i \in Inv : StopTerm(i)
    \/ \E i \in Inv : StopPoll(i)
    \/ \E i \in Inv : StopRecheck(i)
    \/ \E i \in Inv : StopKill(i)
    \/ \E p \in Pids : ProcDie(p)
    \/ \E port \in Ports : ExtListen(port)

Spec == Init /\ [][Next]_vars

\* discover_servers() applied to the chosen contents
DiscRun ==
    /\ dpc = "ready"
    /\ dres' = Discover(tables, ptable)
    /\ dpc' = "done"
    /\ UNCHANGED <<tables, ptable>>
    /\ UNCHANGED lifeVars

DiscInit ==
    /\ tables \in TablesOver(DiscRows, MaxRows) \X TablesOver(DiscRows6, MaxRows6)
    /\ ptable \in PTables
    /\ dpc = "ready"
    /\ dres = NoResult
    /\ LifeIdle

SpecDisc == DiscInit /\ [][DiscRun]_vars

\* one status command line is run, while processes come and go
NextStatus ==
    \/ \E port \in Ports \cup {NoPort} : Invoke(1, "status", port, "new")
    \/ \E i \in Inv : StatusDiscover(i)
    \/ \E i \in Inv : StatusHealth(i)
    \/ \E p \in ExtPids : Leave(p)

SpecStatus == Init /\ [][NextStatus]_vars

\* one restart command line is run
NextRestart ==
    \/ \E port \in Ports \cup {NoPort} : Invoke(1, "restart", port, "new")
    \/ \E i \in Inv : StopDiscover(i)
    \/ \E i \in Inv : StopTerm(i)
    \/ \E i \in Inv : StopPoll(i)
    \/ \E i \in Inv : StopRecheck(i)
    \/ \E i \in Inv : StopKill(i)
    \/ \E i \in Inv : StartMigrate(i)
    \/ \E i \in Inv : StartCheckDir(i)
    \/ \E i \in Inv : StartDiscover(i)
    \/ \E i \in Inv : StartProbe(i)
    \/ \E i \in Inv : StartFork(i)
    \/ \E i \in Inv : StartPoll(i)
    \/ \E i \in Inv : StartPollExhausted(i)
    \/ \E p \in Pids : ChildSetsid(p)
    \/ \E p \in Pids : ChildChdir(p)
    \/ \E p \in Pids : ChildOpenLog(p)
    \/ \E p \in Pids : ChildMkdir(p)
    \/ \E p \in Pids : ChildBind(p)
    \/ \E p \in Pids : ChildServe(p)
    \/ \E p \in Pids : ProcDie(p)
    \/ \E port \in Ports : ExtListen(port)

\* restart is run with the log file absent and no legacy log to migrate
InitRestart ==
    /\ Init
    /\ fs.files = {}
    /\ fs.logDir

SpecRestart == InitRestart /\ [][NextRestart]_vars

\* command lines are run one after the other, and nothing but this tool and
\* the servers it forked acts on the machine
NextSeq ==
    \/ \E cmd \in {"start", "stop", "status", "restart"}, port \in Ports \cup {NoPort} :
          Invoke(1, cmd, port, "new")
    \/ \E cmd \in {"start", "stop", "status", "restart"}, port \in Ports \cup {NoPort} :
          InvokeAfter(1, cmd, port, "new")
    \/ \E i \in Inv : StartMigrate(i)
    \/ \E i \in Inv : StartCheckDir(i)
    \/ \E i \in Inv : StartDiscover(i)
    \/ \E i \in Inv : StartProbe(i)
    \/ \E i \in Inv : StartFork(i)
    \/ \E i \in Inv : StartPoll(i)
    \/ \E i \in Inv : StartPollExhausted(i)
    \/ \E p \in Pids : ChildSetsid(p)
    \/ \E p \in Pids : ChildChdir(p)
    \/ \E p \in Pids : ChildOpenLog(p)
    \/ \E p \in Pids : ChildMkdir(p)
    \/ \E p \in Pids : ChildBind(p)
    \/ \E p \in Pids : ChildServe(p)
    \/ \E i \in Inv : StopDiscover(i)
    \/ \E i \in Inv : StopTerm(i)
    \/ \E i \in Inv : StopPoll(i)
    \/ \E i \in Inv : StopRecheck(i)
    \/ \E i \in Inv : StopKill(i)
    \/ \E i \in Inv : StatusDiscover(i)
    \/ \E i \in Inv : StatusHealth(i)
    \/ \E p \in Pids : ProcDie(p)

\* no process of this tool runs at the beginning
InitSeq == DiscIdle /\ LifeIdle

SpecSeq == InitSeq /\ [][NextSeq]_vars

\* two start command lines, both without a port argument and so both for
\* 0.0.0.0:8000, are run side by side; the second is typed at any time after
\* the first
NextRace ==
    \/ Invoke(1, "start", NoPort, "new")
    \/ ctl[1].cmd = "start" /\ Invoke(2, "start", NoPort, "new")
    \/ \E i \in Inv : StartMigrate(i)
    \/ \E i \in Inv : StartCheckDir(i)
    \/ \E i \in Inv : StartDiscover(i)
    \/ \E i \in Inv : StartProbe(i)
    \/ \E i \in Inv : StartFork(i)
    \/ \E i \in Inv : StartPoll(i)
    \/ \E i \in Inv : StartPollExhausted(i)
    \/ \E p \in Pids : ChildSetsid(p)
    \/ \E p \in Pids : ChildChdir(p)
    \/ \E p \in Pids : ChildOpenLog(p)
    \/ \E p \in Pids : ChildMkdir(p)
    \/ \E p \in Pids : ChildBind(p)
    \/ \E p \in Pids : ChildServe(p)

SpecRace == InitSeq /\ [][NextRace]_vars

\* the statements of the command line in slot i that run discover_servers()
ScanStep(i) ==
    \/ StartDiscover(i) \/ StartPoll(i) \/ StopDiscover(i) \/ StatusDiscover(i)

\* its other statements
LocalStep(i) ==
    \/ StartMigrate(i) \/ StartCheckDir(i) \/ StartProbe(i) \/ StartFork(i)
    \/ StartPollExhausted(i)
    \/ StopTerm(i) \/ StopPoll(i) \/ StopRecheck(i) \/ StopKill(i)
    \/ StatusHealth(i)

\* the next statement of the command line in slot i, whichever command it is
CtlStep(i) == ScanStep(i) \/ LocalStep(i)

\* the command is at a statement that runs discover_servers(): the guards of
\* the disjuncts of ScanStep
AtScan(i) ==
    \/ ctl[i].pc \in {"s_discover", "k_discover", "t_discover"}
    \/ ctl[i].pc = "s_poll" /\ ctl[i].n < StartPolls

\* one command line of any kind is run
NextAny ==
    \/ \E cmd \in {"start", "stop", "status", "restart"}, port \in Ports \cup {NoPort} :
          Invoke(1, cmd, port, "new")
    \/ \E i \in Inv : CtlStep(i)
    \/ \E p \in Pids : ChildSetsid(p)
    \/ \E p \in Pids : ChildChdir(p)
    \/ \E p \in Pids : ChildOpenLog(p)
    \/ \E p \in Pids : ChildMkdir(p)
    \/ \E p \in Pids : ChildBind(p)
    \/ \E p \in Pids : ChildServe(p)
    \/ \E p \in Pids : ProcDie(p)
    \/ \E p \in ExtPids : Leave(p)
    \/ \E port \in Ports : ExtListen(port)

\* the command is a process of its own that keeps running: a statement it can
\* execute is executed (weak fairness of its steps).  For the statements that
\* scan /proc the condition is written out, with AtScan(1) for
\* ENABLED <<ScanStep(1)>>_vars.  Nothing is assumed of the forked child, of
\* the other processes or of the signals' effect.
CtlProceeds ==
    /\ WF_vars(LocalStep(1))
    /\ []<>(~AtScan(1)) \/ []<><<ScanStep(1)>>_vars

SpecLive == InitRestart /\ [][NextAny]_vars /\ CtlProceeds

(***************************************************************************)
(* Properties of server_stop                                               *)
(***************************************************************************)
Count(seq, x) == Cardinality({k \in 1..Len(seq) : seq[k] = x})
Last(seq) == seq[Len(seq)]
Has(seq, x) == \E k \in 1..Len(seq) : seq[k] = x

\* the pids of the discovery result that the command's port argument selects
MatchedPids(c) ==
    {c.seen[k][1] : k \in {j \in 1..Len(c.seen) : c.argPort = NoPort \/ c.seen[j][2] = c.argPort}}

Discovered(c) == c.pc \notin {"idle", "s_migrate", "s_dir", "s_discover", "k_discover"}

\* C1: when the discovery result, after the optional port filter, holds more
\* than one distinct pid, stop reports the ambiguity and returns, and no
\* signal, graceful or forceful, was sent to any process.
C1_AmbiguousStopSendsNothing ==
    \A i \in Inv :
        (ctl[i].cmd = "stop" /\ Discovered(ctl[i]) /\ Cardinality(MatchedPids(ctl[i])) > 1)
        => /\ ctl[i].pc = "done"
           /\ ctl[i].out = <<"Ambiguous">>
           /\ ctl[i].sigs = <<>>
           /\ ctl[i].probes = 0
           /\ \A p \in Pids : proc[p].pend = "none"

\* a stop, given a port, that found two pids on that port and refused
C1_Witness ==
    \E i \in Inv :
        /\ ctl[i].cmd = "stop" /\ ctl[i].pc = "done" /\ ctl[i].argPort # NoPort
        /\ Cardinality(MatchedPids(ctl[i])) = 2
        /\ ctl[i].out = <<"Ambiguous">>

\* C2: on a single matched pid, SIGTERM is the first signal sent; SIGKILL is
\* sent only after the 30 probes of the poll all found the pid present, never
\* when a probe found it gone; at most one of each, both to the matched pid.
C2_TermThenKillAfterPoll ==
    \A i \in Inv :
        ctl[i].cmd = "stop" =>
        LET sg == ctl[i].sigs
        IN  /\ Len(sg) <= 2
            /\ Count(sg, <<"TERM", ctl[i].target>>) = (IF Len(sg) >= 1 THEN 1 ELSE 0)
            /\ Len(sg) >= 1 => /\ sg[1] = <<"TERM", ctl[i].target>>
                               /\ MatchedPids(ctl[i]) = {ctl[i].target}
            /\ Len(sg) = 2 => /\ sg[2] = <<"KILL", ctl[i].target>>
                              /\ ctl[i].probes > StopPolls
                              /\ ~ctl[i].gone
            /\ ctl[i].gone => ~Has(sg, <<"KILL", ctl[i].target>>)
            /\ (ctl[i].probes > 0 \/ ctl[i].pc = "k_poll") => Len(sg) >= 1

\* a stop that ran out of probes and sent both signals
C2_Witness ==
    \E i \in Inv :
        /\ ctl[i].cmd = "stop"
        /\ ctl[i].sigs = <<<<"TERM", ctl[i].target>>, <<"KILL", ctl[i].target>>>>
        /\ ctl[i].probes = StopPolls + 1

\* C3: a stop that matched a single pid ends with the report "Stopped", made
\* exactly once and as its last report, on every path; the report is made only
\* after a probe found the pid gone or SIGKILL was sent.
C3_StoppedOnceAtTheEnd ==
    \A i \in Inv :
        (ctl[i].cmd = "stop" /\ ctl[i].target # NoPid) =>
        /\ ctl[i].pc = "done" => /\ Count(ctl[i].out, "Stopped") = 1
                                 /\ Last(ctl[i].out) = "Stopped"
                                 /\ ctl[i].exit = 0
        /\ ctl[i].pc # "done" => ~Has(ctl[i].out, "Stopped")
        /\ Has(ctl[i].out, "Stopped") =>
              \/ ctl[i].gone
              \/ Has(ctl[i].sigs, <<"KILL", ctl[i].target>>)

\* the pid outlived the 30 probes of the loop and was gone at the re-check
C3_Witness ==
    \E i \in Inv :
        /\ ctl[i].cmd = "stop" /\ ctl[i].pc = "done"
        /\ ctl[i].probes = StopPolls + 1 /\ ctl[i].gone
        /\ ctl[i].out = <<"Stopping", "Stopped">>

(***************************************************************************)
(* Properties of server_start                                              *)
(***************************************************************************)
\* the discovery result of start holds an instance on the requested port
SeenOnPort(c, port) == \E k \in 1..Len(c.seen) : c.seen[k][2] = port

\* C4: a start that finds a managed instance on the requested port reports
\* "already running" and has no side effect: nothing forked, no port probe, no
\* change to the file system.
C4_AlreadyRunningNoSideEffect ==
    \A i \in Inv :
        (ctl[i].cmd = "start" /\ Discovered(ctl[i]) /\ SeenOnPort(ctl[i], ctl[i].port))
        => /\ ctl[i].out = <<"AlreadyRunning">>
           /\ ctl[i].child = NoPid
           /\ ctl[i].connects = 0
           /\ ctl[i].fsops = {}

\* C5: a start given no port reports "already running" and forks nothing
\* whenever discovery reports any managed instance, on any port.
C5_NoPortAnyInstanceCounts ==
    \A i \in Inv :
        (ctl[i].cmd = "start" /\ ctl[i].argPort = NoPort
            /\ Discovered(ctl[i]) /\ ctl[i].seen # <<>>)
        => /\ ctl[i].out = <<"AlreadyRunning">>
           /\ ctl[i].child = NoPid

\* C6: a start whose pre-flight probe finds the port answering reports the
\* error, forks nothing and ends with exit status 1, as a missing served
\* directory does.
C6_PortInUseExitsOne ==
    \A i \in Inv :
        /\ Has(ctl[i].out, "PortInUse") => /\ ctl[i].child = NoPid
                                           /\ ctl[i].pc = "done"
                                           /\ ctl[i].exit = 1
        /\ Has(ctl[i].out, "DirNotFound") => /\ ctl[i].child = NoPid
                                             /\ ctl[i].pc = "done"
                                             /\ ctl[i].exit = 1

\* a process ever listened on the port, in either address family
ListensOn(p, port) == \E sk \in proc[p].socks : sk[2] = port

\* C7: after the fork the parent ends with exactly one of two reports:
\* "Started", made within the 30 polls and naming a managed process that
\* listens on the requested port, or "not confirmed" once the 30 polls are
\* used up; its exit status is 0 either way.  A child that fails to bind writes
\* the error to the log only and ends with status 1, and when no managed
\* process listens on the port the parent's report is "not confirmed".
C7_StartedOrNotConfirmed ==
    \A i \in Inv :
        (ctl[i].cmd = "start" /\ ctl[i].child # NoPid) =>
        LET c == ctl[i]
            kid == proc[c.child]
        IN  /\ c.pc = "done" =>
                /\ Count(c.out, "Started") + Count(c.out, "NotConfirmed") = 1
                /\ Last(c.out) \in {"Started", "NotConfirmed"}
                /\ c.exit = 0
            /\ c.pc # "done" => ~Has(c.out, "Started") /\ ~Has(c.out, "NotConfirmed")
            /\ Has(c.out, "Started") => /\ c.n < StartPolls
                                        /\ proc[c.rpid].managed
                                        /\ ListensOn(c.rpid, c.port)
            /\ Has(c.out, "NotConfirmed") => c.n = StartPolls
            /\ kid.logged => /\ ~kid.alive /\ kid.xcode = 1
                             /\ ~kid.tty /\ kid.redir /\ kid.socks = {}
            /\ (c.pc = "done" /\ kid.logged
                  /\ \A p \in Pids : proc[p].managed => ~ListensOn(p, c.port))
               => Last(c.out) = "NotConfirmed"

\* the child lost the port to another program and the parent polled in vain
C7_Witness ==
    \E i \in Inv :
        /\ ctl[i].cmd = "start" /\ ctl[i].pc = "done" /\ ctl[i].child # NoPid
        /\ proc[ctl[i].child].logged /\ proc[ctl[i].child].xcode = 1
        /\ Last(ctl[i].out) = "NotConfirmed"

Children == {p \in Pids : proc[p].cpc \notin {"none", "ext"}}

\* C8 as stated: detach, then redirect the streams, then chdir, then bind,
\* then serve; no later step before an earlier one.
C8_OrderRedirectBeforeChdir ==
    \A p \in Children :
        /\ proc[p].redir => proc[p].sid
        /\ proc[p].cwd => proc[p].redir
        /\ proc[p].socks # {} => proc[p].cwd
        /\ proc[p].cpc = "forever" => proc[p].socks # {}

\* C8 as the program runs: detach, then chdir, then redirect the streams to
\* the log, then bind, then serve; no later step before an earlier one.
C8_OrderChdirBeforeRedirect ==
    \A p \in Children :
        /\ proc[p].cwd => proc[p].sid
        /\ proc[p].redir => proc[p].cwd
        /\ proc[p].socks # {} => proc[p].redir
        /\ proc[p].cpc = "forever" => proc[p].socks # {}

\* a child that went through all five steps and serves
C8_Witness ==
    \E p \in Children :
        /\ proc[p].alive /\ proc[p].cpc = "forever"
        /\ proc[p].sid /\ proc[p].cwd /\ proc[p].redir /\ proc[p].socks # {}

(***************************************************************************)
(* Properties of discover_servers                                          *)
(***************************************************************************)
\* the data lines of the tables that can be read
DataRows(t) == IF t.status = "ok" /\ t.lines # <<>> THEN Tail(t.lines) ELSE <<>>
AllRows == DataRows(tables[1]) \o DataRows(tables[2])

\* a well-formed row of a socket in the listening state
RowListens(r) ==
    /\ Len(r) >= 10
    /\ r[4] = <<"0","A">>
    /\ Count(r[2], ":") = 1
    /\ ParseInt(Split(r[2], ":")[2], 16) >= 0
    /\ ParseInt(r[10], 10) >= 0
RowPort(r) == ParseInt(Split(r[2], ":")[2], 16)
RowInode(r) == ParseInt(r[10], 10)

\* the tables map inode ino to port in the listening state (the last such row decides)
TableMaps(ino, port) ==
    \E k \in 1..Len(AllRows) :
        /\ RowListens(AllRows[k]) /\ RowInode(AllRows[k]) = ino /\ RowPort(AllRows[k]) = port
        /\ \A j \in (k + 1)..Len(AllRows) :
              ~(RowListens(AllRows[j]) /\ RowInode(AllRows[j]) = ino)

EntryManaged(e) ==
    /\ IsDigits(e.name)
    /\ e.cmd.ok
    /\ \E k \in 1..Len(e.cmd.tokens) : Contains(e.cmd.tokens[k], ProgName)
EntryHolds(e, ino) ==
    /\ e.fddir.ok
    /\ \E k \in 1..Len(e.fddir.fds) :
          e.fddir.fds[k].ok /\ e.fddir.fds[k].target = SocketLink(ino)

InodeSet == {InoA, InoB, InoC}
PortSet == {PortA, PortB}
PidSet == {3, 7}

\* the pairs (pid, port): pid is a managed process with a readable descriptor
\* on socket:[ino], and the readable tables map ino to port, listening
ExpectedPairs ==
    {pr \in PidSet \X PortSet :
        \E k \in 1..Len(ptable), ino \in InodeSet :
            /\ EntryManaged(ptable[k])
            /\ ParseInt(ptable[k].name, 10) = pr[1]
            /\ EntryHolds(ptable[k], ino)
            /\ TableMaps(ino, pr[2])}

StrictlySorted(l) ==
    \A k \in 1..(Len(l) - 1) :
        \/ l[k][1] < l[k + 1][1]
        \/ (l[k][1] = l[k + 1][1] /\ l[k][2] < l[k + 1][2])

\* every table and every process entry can be read in full
FullyVisible ==
    /\ \A k \in 1..Len(tables) : tables[k].status = "ok"
    /\ \A k \in 1..Len(ptable) :
          /\ ptable[k].cmd.ok
          /\ ptable[k].fddir.ok
          /\ \A j \in 1..Len(ptable[k].fddir.fds) : ptable[k].fddir.fds[j].ok

NoZeroLineTable == \A k \in 1..Len(tables) : ~(tables[k].status = "ok" /\ tables[k].lines = <<>>)

\* C9: discover returns exactly the duplicate-free list, sorted by (pid, port),
\* of the pairs (pid, port) of managed processes holding a descriptor on a
\* socket the tables show listening on that port; with no managed process the
\* result is empty whatever the tables contain.
C9_DiscoverExact ==
    dpc = "done" =>
        /\ FullyVisible => /\ ~dres.raised
                           /\ StrictlySorted(dres.list)
                           /\ SeqToSet(dres.list) = ExpectedPairs
        /\ (\A k \in 1..Len(ptable) : ~EntryManaged(ptable[k]))
              => (~dres.raised /\ dres.list = <<>>)

\* C10: discover never aborts on partial visibility: whatever the tables hold
\* (missing, denied, no line at all, header only, short or unparsable rows)
\* and whichever process entries cannot be read, the call completes with the
\* pairs the readable part supports.
C10_DiscoverNeverAborts ==
    dpc = "done" =>
        /\ ~dres.raised
        /\ SeqToSet(dres.list) = ExpectedPairs

\* what does hold: apart from a table that is readable and has no line at all,
\* the call completes with exactly the sorted pairs the readable part supports
DiscoverExactOnHeadedTables ==
    (dpc = "done" /\ NoZeroLineTable) =>
        /\ ~dres.raised
        /\ StrictlySorted(dres.list)
        /\ SeqToSet(dres.list) = ExpectedPairs

\* a table that is readable and has no line at all makes the call raise
ZeroLineTableRaises ==
    (dpc = "done" /\ ~NoZeroLineTable
        /\ \A k \in 1..Len(tables) :
              (tables[k].status = "ok" /\ tables[k].lines = <<>>) =>
                  \A j \in 1..(k - 1) : tables[j].status # "ok" \/ tables[j].lines # <<>>)
    => dres.raised

(***************************************************************************)
(* Properties of server_status                                             *)
(***************************************************************************)
\* what the command matched: the discovered pairs after its port filter
Matched(c) == IF c.port # NoPort THEN FilterPort(c.seen, c.port) ELSE c.seen

StatusDecided(c) == c.cmd = "status" /\ c.pc \in {"t_health", "done"}

NothingSignalledOrForked(c) ==
    /\ c.sigs = <<>>
    /\ c.child = NoPid
    /\ nextPid = FirstChildPid
    /\ \A p \in Pids : proc[p].pend = "none"

\* C11: status with exactly one matched instance reports "Running" with that
\* pid; when the instance serves exactly one port the health probe is made
\* exactly once, against that port, after the running report and without
\* altering it, and its outcome (OK or failed) is a report of its own; when the
\* instance serves several ports no probe is made.  status sends no signal and
\* forks nothing.
C11_StatusOneInstance ==
    \A i \in Inv :
        LET c == ctl[i]
            m == Matched(c)
        IN  c.cmd = "status" =>
              /\ NothingSignalledOrForked(c)
              /\ (StatusDecided(c) /\ Cardinality(PidsOf(m)) = 1) =>
                    /\ c.rpid = m[1][1]
                    /\ c.out # <<>> /\ c.out[1] = "Running"
                    /\ Count(c.out, "Running") = 1
                    /\ IF Len(m) = 1
                       THEN /\ c.hport = m[1][2]
                            /\ c.pc = "t_health" => (c.hprobes = 0 /\ c.out = <<"Running">>)
                            /\ c.pc = "done" =>
                                  /\ c.hprobes = 1
                                  /\ c.out \in {<<"Running", "HealthOK">>,
                                                <<"Running", "HealthFailed">>}
                       ELSE /\ c.pc = "done"
                            /\ c.hprobes = 0
                            /\ c.out = <<"Running">>

\* one instance on one port, reported running, and the probe failed
C11_Witness ==
    /\ ctl[1].cmd = "status" /\ ctl[1].pc = "done"
    /\ Len(Matched(ctl[1])) = 1
    /\ ctl[1].out = <<"Running", "HealthFailed">>
    /\ ctl[1].hprobes = 1

\* the same, and the probe succeeded
StatusHealthOkReached ==
    ~(ctl[1].cmd = "status" /\ ctl[1].out = <<"Running", "HealthOK">>)

\* one instance on two ports, reported running, no probe
StatusTwoPortsReached ==
    ~(ctl[1].cmd = "status" /\ ctl[1].pc = "done" /\ Len(Matched(ctl[1])) = 2
      /\ Cardinality(PidsOf(Matched(ctl[1]))) = 1 /\ ctl[1].out = <<"Running">>)

\* C12: status reports the multi-instance ambiguity, and selects no instance
\* to report as running or to probe, exactly when stop on the same discovery
\* result and port filter would refuse to act: whenever more than one distinct
\* pid matches after filtering.
C12_StatusAmbiguityAsStop ==
    \A i \in Inv :
        LET c == ctl[i]
            m == Matched(c)
        IN  (StatusDecided(c) /\ m # <<>>) =>
              IF StopAmbiguous(m, c.port)
              THEN c.out = <<"Multiple">> /\ c.rpid = NoPid /\ c.hprobes = 0
                   /\ c.pc = "done"
              ELSE ~Has(c.out, "Multiple")

\* where the two rules part: a port filter that more than one pid matches
StatusPicksAmongSeveral ==
    ~(\E i \in Inv : StatusDecided(ctl[i]) /\ ctl[i].port # NoPort
         /\ Cardinality(PidsOf(Matched(ctl[i]))) > 1 /\ Has(ctl[i].out, "Running"))

\* without a port filter the two rules agree
StatusAmbiguityAsStopNoFilter ==
    \A i \in Inv :
        (StatusDecided(ctl[i]) /\ ctl[i].port = NoPort /\ ctl[i].seen # <<>>) =>
            (Has(ctl[i].out, "Multiple") <=> StopAmbiguous(ctl[i].seen, NoPort))

(***************************************************************************)
(* Properties of server_restart                                            *)
(***************************************************************************)
StopOutcomes == {"NoRunning", "NoServerOnPort", "Ambiguous", "Stopped"}
StartOutcomes == {"DirNotFound", "AlreadyRunning", "PortInUse", "Started", "NotConfirmed"}
StartReports == StartOutcomes \cup {"Warning", "Starting"}

\* the reports of the command up to its first stop outcome, that one included
RECURSIVE StopPart(_)
StopPart(out) ==
    IF out = <<>> THEN <<>>
    ELSE IF Head(out) \in StopOutcomes THEN <<Head(out)>>
    ELSE <<Head(out)>> \o StopPart(Tail(out))

\* C13: restart runs stop and then start with the same request.  While stop
\* has not returned no step of start has happened (no port default, no file
\* operation, no port probe, no fork, no report of start); start is entered
\* after each outcome of stop, and the command ends only after start has
\* reported its own outcome; start works on the port argument stop was given.
C13_RestartStopThenStart ==
    \A i \in Inv :
        LET c == ctl[i]
        IN  c.cmd = "restart" =>
              /\ c.phase \in {"stop", "start"}
              /\ c.phase = "stop" =>
                    /\ c.pc \in {"k_discover", "k_term", "k_poll", "k_kill"}
                    /\ c.port = c.argPort
                    /\ c.fsops = {} /\ c.connects = 0 /\ c.child = NoPid
                    /\ \A k \in 1..Len(c.out) : c.out[k] \notin StartReports \cup StopOutcomes
              /\ c.phase = "start" =>
                    /\ c.pc \in {"s_migrate", "s_dir", "s_discover", "s_probe", "s_fork",
                                 "s_poll", "done"}
                    /\ Last(StopPart(c.out)) \in StopOutcomes
                    /\ \A k \in 1..Len(StopPart(c.out)) : StopPart(c.out)[k] \notin StartReports
                    /\ c.pc # "s_migrate" =>
                          c.port = (IF c.argPort = NoPort THEN DEFAULT_PORT ELSE c.argPort)
              /\ c.pc = "done" =>
                    /\ c.phase = "start"
                    /\ Last(c.out) \in StartOutcomes
                    /\ Len(c.out) > Len(StopPart(c.out))

\* restart force-killed the instance and then started a new one
C13_Witness ==
    /\ ctl[1].cmd = "restart" /\ ctl[1].pc = "done"
    /\ Has(ctl[1].out, "ForceKilling")
    /\ Last(ctl[1].out) = "Started"
    /\ ctl[1].rpid = ctl[1].child

\* start is reached after each of the other outcomes of stop as well
RestartAfterNotRunning ==
    ~(ctl[1].cmd = "restart" /\ ctl[1].pc = "done" /\ ctl[1].out[1] = "NoRunning")
RestartAfterNoServerOnPort ==
    ~(ctl[1].cmd = "restart" /\ ctl[1].pc = "done" /\ ctl[1].out[1] = "NoServerOnPort")
RestartAfterAmbiguous ==
    ~(ctl[1].cmd = "restart" /\ ctl[1].pc = "done" /\ ctl[1].out[1] = "Ambiguous")
RestartAfterGraceful ==
    ~(ctl[1].cmd = "restart" /\ ctl[1].pc = "done" /\ ctl[1].out[2] = "Stopped"
      /\ Len(ctl[1].sigs) = 1)

\* C19: whenever stop reports "Stopped", the pid it targeted is no longer in
\* the process table at the moment of the report.
C19_StoppedMeansGone ==
    [][\A i \in Inv :
          (Count(ctl'[i].out, "Stopped") > Count(ctl[i].out, "Stopped"))
              => ~proc'[ctl'[i].target].alive]_vars

\* "Stopped" reported after a probe of the pid failed: the pid is gone
StoppedAfterProbeMeansGone ==
    [][\A i \in Inv :
          (Count(ctl'[i].out, "Stopped") > Count(ctl[i].out, "Stopped")
           /\ ~Has(ctl'[i].out, "ForceKilling"))
              => ~proc'[ctl'[i].target].alive]_vars

\* the start step of restart finds the pid stop reported as stopped
RestartFindsStoppedPid ==
    ~(\E i \in Inv : ctl[i].cmd = "restart" /\ Has(ctl[i].out, "Stopped")
         /\ Last(ctl[i].out) = "AlreadyRunning" /\ ctl[i].rpid = ctl[i].target)

\* C20: restart preserves the served port: when its stop step stopped a
\* single instance whose only port was P, the child its start step forks is
\* set to bind P.
C20_RestartKeepsPort ==
    \A i \in Inv :
        LET c == ctl[i]
        IN  (c.cmd = "restart" /\ Has(c.out, "Stopped") /\ c.child # NoPid
             /\ Len(c.tports) = 1)
                => proc[c.child].port = c.tports[1]

\* with a port argument the port is kept
RestartKeepsGivenPort ==
    \A i \in Inv :
        LET c == ctl[i]
        IN  (c.cmd = "restart" /\ Has(c.out, "Stopped") /\ c.child # NoPid
             /\ c.argPort # NoPort)
                => proc[c.child].port = c.argPort /\ c.tports = <<c.argPort>>

(***************************************************************************)
(* Termination of the controller                                           *)
(***************************************************************************)
\* C14: every controller invocation terminates: the confirmation poll after
\* the fork and the liveness poll after SIGTERM run at most 30 iterations each
\* and then leave the loop whatever the other processes do, so start (parent
\* side), stop, status and restart reach their return.
C14_ControllerTerminates ==
    /\ [](\A i \in Inv : ctl[i].n <= StartPolls /\ ctl[i].n <= StopPolls)
    /\ Running(1) ~> (ctl[1].pc = "done")

\* both polls of one restart ran to their bound: the pid never left, the port
\* never appeared
C14_Witness ==
    /\ ctl[1].cmd = "restart" /\ ctl[1].pc = "done"
    /\ Has(ctl[1].out, "ForceKilling")
    /\ Last(ctl[1].out) = "NotConfirmed"
    /\ ctl[1].n = StartPolls

(***************************************************************************)
(* The instances the controller produces                                   *)
(***************************************************************************)
\* the ServerInstances: the live managed processes that hold a listening port
Instances == {p \in Pids : proc[p].alive /\ proc[p].managed /\ proc[p].socks # {}}

PortsServed(p) == {sk[2] : sk \in proc[p].socks}

\* C15: with command lines of this controller only (start, stop, restart,
\* status, any port arguments) and no other actor creating managed processes,
\* at most one ServerInstance exists at any time.
C15_AtMostOneInstance == Cardinality(Instances) <= 1

\* C15 as the code keeps it: with command lines of this controller only, at
\* most one ServerInstance exists per port at any time; instances on different
\* ports can exist side by side.
C15_AtMostOneInstancePerPort ==
    \A p, q \in Instances : p # q => PortsServed(p) \cap PortsServed(q) = {}

\* two command lines have left two instances, one on each port
C15_Witness ==
    /\ ctl[1].pc = "done" /\ ctl[1].runs = 1
    /\ Cardinality(Instances) = 2
    /\ \E p, q \in Instances : proc[p].socks = {<<"tcp", DEFAULT_PORT>>}
                                 /\ proc[q].socks = {<<"tcp", AltPort>>}

(***************************************************************************)
(* Two starts for the same port, side by side                              *)
(***************************************************************************)
\* the children that got as far as listening
EverServed == {p \in Children : proc[p].socks # {}}

\* the children that ended after their streams were redirected: their bind
\* raised OSError
LostBind == {p \in Children : proc[p].cpc = "exit" /\ proc[p].redir}

\* C16: no lock is held on (bind, port): under every interleaving of two
\* starts for the same port, those where both pass the already-running check
\* and the connect probe and both fork included, at most one child ever serves
\* the port; the child that loses the bind writes the failure to the log and
\* ends with status 1 without serving.
C16_OneChildServes ==
    /\ Cardinality(EverServed) <= 1
    /\ \A p \in LostBind :
          /\ proc[p].logged /\ ~proc[p].tty
          /\ proc[p].xcode = 1 /\ ~proc[p].alive
          /\ proc[p].socks = {}
          /\ \E q \in Pids \ {p} : <<"tcp", proc[p].port>> \in proc[q].socks

\* both starts forked; one child serves, the other lost the bind
C16_Witness ==
    /\ ctl[1].child # NoPid /\ ctl[2].child # NoPid
    /\ Cardinality(EverServed) = 1
    /\ Cardinality(LostBind) = 1
    /\ \A i \in Inv : ctl[i].pc = "done"

\* C18: when the parent side of start reports "Started (PID x)", x is the pid
\* of the child this invocation forked, other starts running side by side
\* notwithstanding.
C18_StartedNamesOwnChild ==
    \A i \in Inv :
        (ctl[i].cmd = "start" /\ Has(ctl[i].out, "Started")) => ctl[i].rpid = ctl[i].child

\* a start reports "Started" with the other start's child, its own having
\* lost the bind
StartedNamesLoser ==
    ~(\E i \in Inv : Has(ctl[i].out, "Started") /\ ctl[i].rpid # ctl[i].child
         /\ ctl[i].child \in LostBind)

(***************************************************************************)
(* One process on several ports                                            *)
(***************************************************************************)
\* C17: ambiguity is decided by the number of distinct pids only: when the
\* discovery result, after the optional port filter, holds a single pid and
\* that pid serves two or more ports, stop does not refuse: it announces the
\* stop of that pid and sends it SIGTERM first, with or without a port filter.
C17_OnePidSeveralPortsIsStopped ==
    \A i \in Inv :
        LET c == ctl[i]
            m == Matched(c)
        IN  (c.cmd = "stop" /\ c.pc \notin {"idle", "k_discover"} /\ m # <<>>
             /\ Cardinality(PidsOf(m)) = 1
             /\ Len(PortsOf(c.seen, m[1][1])) >= 2)
                => /\ c.out[1] = "Stopping"
                   /\ ~Has(c.out, "Ambiguous")
                   /\ c.target = m[1][1]
                   /\ c.tports = PortsOf(m, m[1][1])
                   /\ \/ c.pc = "k_term" /\ c.sigs = <<>>
                      \/ c.sigs # <<>> /\ c.sigs[1] = <<"TERM", m[1][1]>>

\* stop without a port filter has sent SIGTERM to the one pid that serves
\* both ports
C17_Witness ==
    /\ ctl[1].cmd = "stop" /\ ctl[1].argPort = NoPort
    /\ ctl[1].seen = <<<<1, DEFAULT_PORT>>, <<1, AltPort>>>>
    /\ ctl[1].sigs # <<>> /\ ctl[1].sigs[1] = <<"TERM", 1>>

\* the same with the port filter
StopTwoPortPidWithFilter ==
    ~(ctl[1].cmd = "stop" /\ ctl[1].argPort = AltPort
      /\ ctl[1].seen = <<<<1, DEFAULT_PORT>>, <<1, AltPort>>>>
      /\ ctl[1].sigs # <<>> /\ ctl[1].sigs[1] = <<"TERM", 1>>)

====
